---- MODULE Spec2Model ----
(***************************************************************************)
(* Shift lifecycle and cash reconciliation of the petrol-pump backend:     *)
(* ShiftService.startShift / endShift / resolveDiscrepancy, the routes     *)
(* that call them, the dispenser price operations and the audit log.       *)
(*                                                                         *)
(* Every handler is an async function; each `await` on the store is one    *)
(* atomic store step, and the synchronous JavaScript that follows it (up   *)
(* to the next await or the return) belongs to the same action.  Requests  *)
(* run in NumRequests slots that interleave at the awaits.                 *)
(*                                                                         *)
(* Numbers.  A JavaScript number is modelled as an integer count of        *)
(* thousandths (1.000 = 1000), so a request can carry one decimal more     *)
(* than a DECIMAL(10,2) column keeps.  A product of two such numbers is    *)
(* kept in millionths.  Values stored in a DECIMAL(10,2) column are        *)
(* thousandths that are multiples of 10.  Binary floating-point drift of   *)
(* the JavaScript arithmetic is not modelled.                              *)
(*                                                                         *)
(* The CHECK constraints of the shifts table never reject a row the        *)
(* handlers write (the route validators and the handler's own checks are   *)
(* stronger); they are stated as the predicate shifts_check and verified   *)
(* as an invariant instead of being modelled as a failing branch.          *)
(***************************************************************************)
EXTENDS Integers, Sequences, FiniteSets, TLC

(***************************************************************************)
(* Bounds                                                                  *)
(***************************************************************************)
MaxCalls == 3
NumRequests == 2

(***************************************************************************)
(* Program constants                                                       *)
(***************************************************************************)
ONE == 1000
Tolerance == 1

(***************************************************************************)
(* Nullable values: Null is SQL NULL / JS null / undefined, Some(v) a value *)
(***************************************************************************)
Null == <<>>
Some(v) == <<v>>
IsNull(x) == x = <<>>
Val(x) == x[1]
OrZero(x) == IF IsNull(x) THEN 0 ELSE Val(x)

Abs(x) == IF x < 0 THEN 0 - x ELSE x

(***************************************************************************)
(* Input domains                                                           *)
(***************************************************************************)
Requests == 1..NumRequests
ShiftIds == {1, 2}
DispenserIds == {"d1"}
ChargingPointIds == {"cp1"}
RatePrices == {1000}
RateFuelTypes == {"PETROL"}
OpeningReadings == {1000}
Reasons == {"", "verified register count"}

Users == {
  [id |-> "op1",  role |-> "OPERATOR", petrolPumpId |-> "pumpA"],
  [id |-> "mgr1", role |-> "MANAGER",  petrolPumpId |-> "pumpA"],
  [id |-> "own1", role |-> "OWNER",    petrolPumpId |-> "pumpA"] }

Operators == {u \in Users : u.role = "OPERATOR"}
RateSetters == {u \in Users : u.role = "MANAGER"}

\* the callers and reasons of the resolve requests
ResolveInputs == {
  [user |-> "op1",  reason |-> "verified register count"],
  [user |-> "mgr1", reason |-> ""],
  [user |-> "mgr1", reason |-> "verified register count"],
  [user |-> "own1", reason |-> "verified register count"] }

NoDigital == [upi |-> Null, card |-> Null, other |-> Null]

EndInputs == {
  [closingReading |-> 900,  actualCash |-> 0,    digitalPayments |-> NoDigital,
   cashUsed |-> 0, cashUsageReason |-> Null],
  [closingReading |-> 1000, actualCash |-> 0,    digitalPayments |-> NoDigital,
   cashUsed |-> 0, cashUsageReason |-> Null],
  [closingReading |-> 3000, actualCash |-> 3000,
   digitalPayments |-> [upi |-> Some(1000), card |-> Some(500), other |-> Some(500)],
   cashUsed |-> 1000, cashUsageReason |-> Some("generator fuel")],
  [closingReading |-> 3000, actualCash |-> 2000, digitalPayments |-> NoDigital,
   cashUsed |-> 1000, cashUsageReason |-> Null],
  [closingReading |-> 3004, actualCash |-> 1000, digitalPayments |-> NoDigital,
   cashUsed |-> 0, cashUsageReason |-> Null] }

VARIABLES dispensers, daily_rates, shifts, audit_logs, req, calls, response,
          charging_points, charging_sessions,
          currentUser, currentToken, revokedUsers, activeSessions, loginAttempts,
          validation

vars == <<dispensers, daily_rates, shifts, audit_logs, req, calls, response,
          charging_points, charging_sessions,
          currentUser, currentToken, revokedUsers, activeSessions, loginAttempts,
          validation>>

\* the charging tables of the store
charging == <<charging_points, charging_sessions>>

\* the fields of the client's AuthenticationService
auth == <<currentUser, currentToken, revokedUsers, activeSessions, loginAttempts>>

store == <<dispensers, daily_rates, shifts, audit_logs>>

(***************************************************************************)
(* Store helpers                                                           *)
(***************************************************************************)
\* PostgREST .single(): the row when exactly one row matches, otherwise
\* data = null (and an error the callers below ignore or report)
single(rows) == IF Cardinality(rows) = 1 THEN Some(CHOOSE r \in rows : TRUE) ELSE Null

\* assignment of a JS number to a DECIMAL(10,2) column: round to 2 decimals
Numeric2(x) == ((x + 5) \div 10) * 10

\* the same for a product of two JS numbers (millionths -> stored thousandths)
Numeric2OfProduct(m) == ((m + 5000) \div 10000) * 10

ShiftRows == {shifts[i] : i \in 1..Len(shifts)}

ActiveShiftsOf(d) == {s \in ShiftRows : s.dispenser_id = d /\ s.status = "ACTIVE"}

ShiftById(id) == {s \in ShiftRows : s.id = id}

\* select('*, dispensers:dispenser_id (current_price)'): the row with the
\* dispenser's price at the time of the statement joined in
WithDispenser(row) ==
  [dispensers |-> [current_price |-> dispensers[row.dispenser_id].current_price]] @@ row

\* BEFORE INSERT OR UPDATE trigger on shifts
calculate_fuel_sold(row) ==
  IF ~IsNull(row.closing_reading) /\ ~IsNull(row.opening_reading)
  THEN [row EXCEPT !.fuel_sold = Some(Val(row.closing_reading) - Val(row.opening_reading))]
  ELSE row

\* CHECK constraints of CREATE TABLE shifts
shifts_check(row) ==
  /\ Val(row.opening_reading) >= 0
  /\ IsNull(row.closing_reading) \/ Val(row.closing_reading) >= Val(row.opening_reading)
  /\ IsNull(row.fuel_sold) \/ Val(row.fuel_sold) >= 0
  /\ IsNull(row.expected_cash) \/ Val(row.expected_cash) >= 0
  /\ row.actual_cash >= 0
  /\ row.cash_used >= 0

logAuditEvent_swapsSnapshots(userId, action, entityType, entityId, oldValues, newValues) ==
  Append(audit_logs, [user_id |-> userId, action |-> action,
                      entity_type |-> entityType, entity_id |-> entityId,
                      old_values |-> newValues, new_values |-> oldValues])

logAuditEvent_replacesLog(userId, action, entityType, entityId, oldValues, newValues) ==
  << [user_id |-> userId, action |-> action,
      entity_type |-> entityType, entity_id |-> entityId,
      old_values |-> oldValues, new_values |-> newValues] >>

\* AuthService.logAuditEvent: one insert into audit_logs; the log after an
\* insert that succeeded
logAuditEvent(userId, action, entityType, entityId, oldValues, newValues) ==
  Append(audit_logs, [user_id |-> userId, action |-> action,
                      entity_type |-> entityType, entity_id |-> entityId,
                      old_values |-> oldValues, new_values |-> newValues])

\* the insert of logAuditEvent can fail; its result is not examined and an
\* exception is caught and written to console.error, so the caller goes on
\* either way
AuditInsert(logged) ==
  \E inserted \in BOOLEAN : audit_logs' = IF inserted THEN logged ELSE audit_logs

authorizeRoles_anyRole(roles, user) == TRUE

\* authorizeRoles(...roles) middleware
authorizeRoles(roles, user) == user.role \in roles

(***************************************************************************)
(* Request slots                                                           *)
(***************************************************************************)
NoArgs == [none |-> TRUE]

IdleReq == [op |-> "none", pc |-> "idle", user |-> Null, args |-> NoArgs,
            cur |-> Null, out |-> Null]

Free(p) == req[p].pc = "idle"

\* the handler goes on to its next store step
Continue(newreq) ==
  /\ req' = newreq
  /\ UNCHANGED response

\* a request is admitted into the first free slot (the slots are
\* interchangeable)
Admit(p) ==
  /\ Free(p)
  /\ \A q \in Requests : q < p => ~Free(q)
  /\ calls < MaxCalls
  /\ calls' = calls + 1

NewReq(op, pc, user, args) ==
  [op |-> op, pc |-> pc, user |-> Some(user), args |-> args,
   cur |-> Null, out |-> Null]

\* the response is sent and the slot is free again; response is the last
\* response the server sent: the operation, the shift it is about (if any)
\* and the message
Return(p, shiftId, message) ==
  /\ req' = [req EXCEPT ![p] = IdleReq]
  /\ response' = [op |-> req[p].op, shiftId |-> shiftId, message |-> message]

\* the seeded charging point, no session yet
InitCharging ==
  /\ charging_points = [c \in ChargingPointIds |->
        [status |-> "AVAILABLE", current_rate |-> 15000,
         total_energy_dispensed |-> 0]]
  /\ charging_sessions = <<>>

\* the AuthenticationService as constructed: nobody signed in, nobody revoked
InitAuth ==
  /\ currentUser = Null
  /\ currentToken = Null
  /\ revokedUsers = {}
  /\ activeSessions = {}
  /\ loginAttempts = [n \in {} |-> 0]

Init ==
  /\ dispensers = [d \in DispenserIds |->
        [current_price |-> 2000, is_active |-> TRUE,
         petrol_pump_id |-> "pumpA", fuel_type |-> "PETROL"]]
  /\ daily_rates = {}
  /\ shifts = <<>>
  /\ audit_logs = <<>>
  /\ req = [p \in Requests |-> IdleReq]
  /\ calls = 0
  /\ response = [op |-> "none", shiftId |-> Null, message |-> "none"]
  /\ InitCharging
  /\ InitAuth
  /\ validation = Null

(***************************************************************************)
(* POST /shifts -> ShiftService.startShift                                 *)
(***************************************************************************)
PostShift(p, u, d, r) ==
  /\ Admit(p)
  /\ req' = [req EXCEPT ![p] = NewReq("startShift", "start_check", u,
                                 [dispenserId |-> d, openingReading |-> r])]
  /\ UNCHANGED <<store, response>>

\* select id from shifts where dispenser_id = .. and status = 'ACTIVE' .single()
startShift_check(p) ==
  /\ req[p].pc = "start_check"
  /\ LET activeShift == single(ActiveShiftsOf(req[p].args.dispenserId))
     IN IF ~IsNull(activeShift)
        THEN Return(p, Null, "There is already an active shift for this dispenser")
        ELSE Continue([req EXCEPT ![p].pc = "start_dispenser"])
  /\ UNCHANGED <<store, calls>>

\* select from dispensers where id = .. .single()
startShift_dispenser(p) ==
  /\ req[p].pc = "start_dispenser"
  /\ IF req[p].args.dispenserId \notin DOMAIN dispensers
     THEN Return(p, Null, "Dispenser not found")
     ELSE Continue([req EXCEPT ![p].pc = "start_insert"])
  /\ UNCHANGED <<store, calls>>

NewShiftRow_endTimeSet(id, dispenserId, userId, openingReading) ==
  calculate_fuel_sold(
    [id |-> id, dispenser_id |-> dispenserId, operator_id |-> userId,
     start_time |-> Some("ts"), end_time |-> Some("ts"),
     opening_reading |-> Some(Numeric2(openingReading)), closing_reading |-> Null,
     fuel_sold |-> Null, expected_cash |-> Null, actual_cash |-> 0,
     digital_payments |-> [upi |-> Some(0), card |-> Some(0), other |-> Some(0)],
     cash_used |-> 0, cash_usage_reason |-> Null,
     discrepancy |-> Null, status |-> "ACTIVE"])

NewShiftRow(id, dispenserId, userId, openingReading) ==
  calculate_fuel_sold(
    [id |-> id, dispenser_id |-> dispenserId, operator_id |-> userId,
     start_time |-> Some("ts"), end_time |-> Null,
     opening_reading |-> Some(Numeric2(openingReading)), closing_reading |-> Null,
     fuel_sold |-> Null, expected_cash |-> Null, actual_cash |-> 0,
     digital_payments |-> [upi |-> Some(0), card |-> Some(0), other |-> Some(0)],
     cash_used |-> 0, cash_usage_reason |-> Null,
     discrepancy |-> Null, status |-> "ACTIVE"])

\* insert into shifts ... .select().single()
startShift_insert(p) ==
  /\ req[p].pc = "start_insert"
  /\ LET newShift == NewShiftRow(Len(shifts) + 1, req[p].args.dispenserId,
                                 Val(req[p].user).id, req[p].args.openingReading)
     IN /\ shifts' = Append(shifts, newShift)
        /\ req' = [req EXCEPT ![p].pc = "start_audit",
                               ![p].out = Some(WithDispenser(newShift))]
  /\ UNCHANGED <<dispensers, daily_rates, audit_logs, calls, response>>

startShift_audit(p) ==
  /\ req[p].pc = "start_audit"
  /\ AuditInsert(logAuditEvent(Val(req[p].user).id, "CREATE", "shifts",
                             Val(req[p].out).id, Null, req[p].out))
  /\ Return(p, Some(Val(req[p].out).id), "Shift started successfully")
  /\ UNCHANGED <<dispensers, daily_rates, shifts, calls>>

startShift(p) ==
  \/ startShift_check(p)
  \/ startShift_dispenser(p)
  \/ startShift_insert(p)
  \/ startShift_audit(p)

(***************************************************************************)
(* PUT /shifts/:id/end -> ShiftService.endShift                            *)
(***************************************************************************)
PutEnd(p, u, id, e) ==
  /\ Admit(p)
  /\ req' = [req EXCEPT ![p] = NewReq("endShift", "end_fetch", u,
                                 [shiftId |-> id, endData |-> e])]
  /\ UNCHANGED <<store, response>>

\* the computation of endShift on the row (with the joined price) it fetched
\* line 251: closingReading < currentShift.opening_reading
NotActive_unchecked(currentShift) == FALSE

\* line 247: currentShift.status !== 'ACTIVE'
NotActive(currentShift) == currentShift.status # "ACTIVE"

ClosingBelowOpening_unchecked(closingReading, currentShift) == FALSE

ClosingBelowOpening_wrongField(closingReading, currentShift) ==
  closingReading < OrZero(currentShift.closing_reading)

ClosingBelowOpening(closingReading, currentShift) ==
  closingReading < Val(currentShift.opening_reading)

fuelSold(e, currentShift) == e.closingReading - Val(currentShift.opening_reading)

expectedCash(e, currentShift) ==
  fuelSold(e, currentShift) * currentShift.dispensers.current_price

totalDigitalPayments(e) ==
  OrZero(e.digitalPayments.upi) + OrZero(e.digitalPayments.card)
    + OrZero(e.digitalPayments.other)

totalReceived(e) == e.actualCash + totalDigitalPayments(e)

expectedTotal(e, currentShift) == expectedCash(e, currentShift) - e.cashUsed * ONE

discrepancyAmount(e, currentShift) ==
  totalReceived(e) * ONE - expectedTotal(e, currentShift)

IsDiscrepancy_inclusive(amount) == Abs(amount) >= Tolerance * ONE * ONE

\* Math.abs(discrepancyAmount) > 1
IsDiscrepancy(amount) == Abs(amount) > Tolerance * ONE * ONE

DiscrepancyRecord_bornResolved(amount) ==
  [amount |-> amount,
   reason |-> IF amount > 0 THEN "Excess cash" ELSE "Cash shortage",
   resolved |-> TRUE]

DiscrepancyRecord_swapped(amount) ==
  [amount |-> amount,
   reason |-> IF amount < 0 THEN "Excess cash" ELSE "Cash shortage",
   resolved |-> FALSE]

DiscrepancyRecord(amount) ==
  [amount |-> amount,
   reason |-> IF amount > 0 THEN "Excess cash" ELSE "Cash shortage",
   resolved |-> FALSE]

\* the row after .update({...}).eq('id', shiftId)
EndShiftRow(row, e, currentShift) ==
  LET amount == discrepancyAmount(e, currentShift)
      flagged == IsDiscrepancy(amount)
  IN calculate_fuel_sold(
       [row EXCEPT
          !.end_time = Some("ts"),
          !.closing_reading = Some(Numeric2(e.closingReading)),
          !.fuel_sold = Some(Numeric2(fuelSold(e, currentShift))),
          !.expected_cash = Some(Numeric2OfProduct(expectedCash(e, currentShift))),
          !.actual_cash = Numeric2(e.actualCash),
          !.digital_payments = e.digitalPayments,
          !.cash_used = Numeric2(e.cashUsed),
          !.cash_usage_reason = e.cashUsageReason,
          !.status = IF flagged THEN "FLAGGED" ELSE "COMPLETED",
          !.discrepancy = IF flagged THEN Some(DiscrepancyRecord(amount)) ELSE Null])

\* select *, dispensers(current_price) from shifts where id = .. .single(),
\* then the status and reading checks
endShift_fetch(p) ==
  /\ req[p].pc = "end_fetch"
  /\ LET found == single(ShiftById(req[p].args.shiftId))
     IN IF IsNull(found)
        THEN Return(p, Some(req[p].args.shiftId), "Shift not found")
        ELSE IF NotActive(Val(found))
        THEN Return(p, Some(req[p].args.shiftId), "Only active shifts can be ended")
        ELSE IF ClosingBelowOpening(req[p].args.endData.closingReading, Val(found))
        THEN Return(p, Some(req[p].args.shiftId),
                    "Closing reading cannot be less than opening reading")
        ELSE Continue([req EXCEPT ![p].pc = "end_update",
                                  ![p].cur = Some(WithDispenser(Val(found)))])
  /\ UNCHANGED <<store, calls>>

endShift_update(p) ==
  /\ req[p].pc = "end_update"
  /\ LET id == req[p].args.shiftId
         updatedShift == EndShiftRow(shifts[id], req[p].args.endData, Val(req[p].cur))
     IN /\ shifts' = [shifts EXCEPT ![id] = updatedShift]
        /\ req' = [req EXCEPT ![p].pc = "end_audit",
                               ![p].out = Some(WithDispenser(updatedShift))]
  /\ UNCHANGED <<dispensers, daily_rates, audit_logs, calls, response>>

endShift_audit_propagatesFailure(p) ==
  /\ req[p].pc = "end_audit"
  /\ \E inserted \in BOOLEAN :
        /\ audit_logs' = IF inserted
                         THEN logAuditEvent(Val(req[p].user).id, "UPDATE", "shifts",
                                            req[p].args.shiftId, req[p].cur, req[p].out)
                         ELSE audit_logs
        /\ Return(p, Some(req[p].args.shiftId),
                  IF inserted THEN "Shift ended successfully" ELSE "Failed to end shift")
  /\ UNCHANGED <<dispensers, daily_rates, shifts, calls>>

endShift_audit(p) ==
  /\ req[p].pc = "end_audit"
  /\ AuditInsert(logAuditEvent(Val(req[p].user).id, "UPDATE", "shifts",
                             req[p].args.shiftId, req[p].cur, req[p].out))
  /\ Return(p, Some(req[p].args.shiftId), "Shift ended successfully")
  /\ UNCHANGED <<dispensers, daily_rates, shifts, calls>>

endShift(p) ==
  \/ endShift_fetch(p)
  \/ endShift_update(p)
  \/ endShift_audit(p)

(***************************************************************************)
(* PUT /shifts/:id/resolve -> ShiftService.resolveDiscrepancy              *)
(***************************************************************************)
PutResolve(p, u, id, reason) ==
  /\ Admit(p)
  /\ req' = [req EXCEPT ![p] = NewReq("resolveDiscrepancy", "resolve_route", u,
                                 [shiftId |-> id, reason |-> reason])]
  /\ UNCHANGED <<store, response>>

resolveDiscrepancy_route_reasonOptional(p) ==
  /\ req[p].pc = "resolve_route"
  /\ IF ~authorizeRoles({"OWNER", "MANAGER"}, Val(req[p].user))
     THEN Return(p, Some(req[p].args.shiftId), "Insufficient permissions")
     ELSE Continue([req EXCEPT ![p].pc = "resolve_fetch"])
  /\ UNCHANGED <<store, calls>>

\* the route: authorizeRoles('OWNER', 'MANAGER'), then body('reason').notEmpty()
resolveDiscrepancy_route(p) ==
  /\ req[p].pc = "resolve_route"
  /\ IF ~authorizeRoles({"OWNER", "MANAGER"}, Val(req[p].user))
     THEN Return(p, Some(req[p].args.shiftId), "Insufficient permissions")
     ELSE IF req[p].args.reason = ""
     THEN Return(p, Some(req[p].args.shiftId), "Validation failed")
     ELSE Continue([req EXCEPT ![p].pc = "resolve_fetch"])
  /\ UNCHANGED <<store, calls>>

resolveDiscrepancy_fetch(p) ==
  /\ req[p].pc = "resolve_fetch"
  /\ LET currentShift == single(ShiftById(req[p].args.shiftId))
     IN IF IsNull(currentShift)
        THEN Return(p, Some(req[p].args.shiftId), "Shift not found")
        ELSE IF Val(currentShift).status # "FLAGGED"
        THEN Return(p, Some(req[p].args.shiftId), "Only flagged shifts can be resolved")
        ELSE Continue([req EXCEPT ![p].pc = "resolve_update", ![p].cur = currentShift])
  /\ UNCHANGED <<store, calls>>

updatedDiscrepancy_keepsReason(currentShift, reason, userId) ==
  [amount |-> Val(currentShift.discrepancy).amount,
   resolved |-> TRUE, reason |-> Val(currentShift.discrepancy).reason,
   resolved_by |-> userId, resolved_at |-> "ts"]

\* { ...currentShift.discrepancy, resolved: true, reason, resolved_by, resolved_at }
updatedDiscrepancy(currentShift, reason, userId) ==
  [amount |-> Val(currentShift.discrepancy).amount,
   resolved |-> TRUE, reason |-> reason,
   resolved_by |-> userId, resolved_at |-> "ts"]

resolveDiscrepancy_update(p) ==
  /\ req[p].pc = "resolve_update"
  /\ LET id == req[p].args.shiftId
         updatedShift ==
           calculate_fuel_sold(
             [shifts[id] EXCEPT
                !.discrepancy = Some(updatedDiscrepancy(Val(req[p].cur), req[p].args.reason,
                                                        Val(req[p].user).id)),
                !.status = "COMPLETED"])
     IN /\ shifts' = [shifts EXCEPT ![id] = updatedShift]
        /\ req' = [req EXCEPT ![p].pc = "resolve_audit", ![p].out = Some(updatedShift)]
  /\ UNCHANGED <<dispensers, daily_rates, audit_logs, calls, response>>

resolveDiscrepancy_audit(p) ==
  /\ req[p].pc = "resolve_audit"
  /\ AuditInsert(logAuditEvent(Val(req[p].user).id, "UPDATE", "shifts",
                             req[p].args.shiftId, req[p].cur, req[p].out))
  /\ Return(p, Some(req[p].args.shiftId), "Shift discrepancy resolved successfully")
  /\ UNCHANGED <<dispensers, daily_rates, shifts, calls>>

resolveDiscrepancy(p) ==
  \/ resolveDiscrepancy_route(p)
  \/ resolveDiscrepancy_fetch(p)
  \/ resolveDiscrepancy_update(p)
  \/ resolveDiscrepancy_audit(p)

(***************************************************************************)
(* POST /dispensers/pump/:pumpId/rates -> DispenserService.setDailyRates   *)
(* with one rate in the request.  daily_rates holds the (pump, fuel type)  *)
(* pairs that have a row for today: UNIQUE(petrol_pump_id, fuel_type,      *)
(* effective_date) makes a second insert on the same day fail before the   *)
(* dispenser prices are touched.                                           *)
(***************************************************************************)
setDailyRates(u, pumpId, fuelType, price) ==
  /\ calls < MaxCalls
  /\ calls' = calls + 1
  /\ authorizeRoles({"OWNER", "MANAGER"}, u)
  /\ u.petrolPumpId = pumpId
  /\ <<pumpId, fuelType>> \notin daily_rates
  /\ daily_rates' = daily_rates \cup {<<pumpId, fuelType>>}
  /\ dispensers' = [d \in DOMAIN dispensers |->
        IF /\ dispensers[d].petrol_pump_id = pumpId
           /\ dispensers[d].fuel_type = fuelType
           /\ dispensers[d].is_active
        THEN [dispensers[d] EXCEPT !.current_price = Numeric2(price)]
        ELSE dispensers[d]]
  /\ AuditInsert(logAuditEvent(u.id, "CREATE", "daily_rates", pumpId, Null,
                             Some([fuel_type |-> fuelType, rate |-> Numeric2(price)])))
  /\ response' = [op |-> "setDailyRates", shiftId |-> Null,
                   message |-> "Daily rates set successfully"]
  /\ UNCHANGED <<shifts, req>>

(***************************************************************************)
(* Specification                                                           *)
(***************************************************************************)
Next ==
  \/ \E p \in Requests, u \in Operators, d \in DispenserIds, r \in OpeningReadings :
        PostShift(p, u, d, r) /\ UNCHANGED <<charging, auth, validation>>
  \/ \E p \in Requests, u \in Operators, id \in ShiftIds, e \in EndInputs :
        PutEnd(p, u, id, e) /\ UNCHANGED <<charging, auth, validation>>
  \/ \E p \in Requests, u \in Users, id \in ShiftIds, reason \in Reasons :
        /\ [user |-> u.id, reason |-> reason] \in ResolveInputs
        /\ PutResolve(p, u, id, reason)
        /\ UNCHANGED <<charging, auth, validation>>
  \/ \E p \in Requests : startShift(p) /\ UNCHANGED <<charging, auth, validation>>
  \/ \E p \in Requests : endShift(p) /\ UNCHANGED <<charging, auth, validation>>
  \/ \E p \in Requests :
        resolveDiscrepancy(p) /\ UNCHANGED <<charging, auth, validation>>
  \/ \E u \in RateSetters, fuelType \in RateFuelTypes, price \in RatePrices :
        /\ setDailyRates(u, "pumpA", fuelType, price)
        /\ UNCHANGED <<charging, auth, validation>>

Spec == Init /\ [][Next]_vars

(***************************************************************************)
(* Sequential histories: the server is given one request at a time, the    *)
(* next one after the previous one has returned.                           *)
(***************************************************************************)
SeqNext == Next /\ Cardinality({p \in Requests : req'[p].pc # "idle"}) <= 1

SeqSpec == Init /\ [][SeqNext]_vars

(***************************************************************************)
(* The server started on a database that already holds one FLAGGED shift:  *)
(* the state left by op1 opening a shift on d1 at 1.00 and closing it with *)
(* the end data SeedEnd.                                                   *)
(***************************************************************************)
SeedEnd ==
  [closingReading |-> 3000, actualCash |-> 3000,
   digitalPayments |-> [upi |-> Some(1000), card |-> Some(500), other |-> Some(500)],
   cashUsed |-> 1000, cashUsageReason |-> Some("generator fuel")]

InitFlagged ==
  /\ dispensers = [d \in DispenserIds |->
        [current_price |-> 2000, is_active |-> TRUE,
         petrol_pump_id |-> "pumpA", fuel_type |-> "PETROL"]]
  /\ daily_rates = {}
  /\ LET opened == NewShiftRow(1, "d1", "op1", 1000)
         closed == EndShiftRow(opened, SeedEnd, WithDispenser(opened))
     IN /\ shifts = <<closed>>
        /\ audit_logs =
             << [user_id |-> "op1", action |-> "CREATE", entity_type |-> "shifts",
                 entity_id |-> 1, old_values |-> Null,
                 new_values |-> Some(WithDispenser(opened))],
                [user_id |-> "op1", action |-> "UPDATE", entity_type |-> "shifts",
                 entity_id |-> 1, old_values |-> Some(WithDispenser(opened)),
                 new_values |-> Some(WithDispenser(closed))] >>
  /\ req = [p \in Requests |-> IdleReq]
  /\ calls = 0
  /\ response = [op |-> "endShift", shiftId |-> Some(1),
                 message |-> "Shift ended successfully"]
  /\ InitCharging
  /\ InitAuth
  /\ validation = Null

SpecFlagged == InitFlagged /\ [][Next]_vars

\* every row the handlers write satisfies the table's CHECK constraints
TableChecks ==
  \A i \in 1..Len(shifts) : shifts[i].id = i /\ shifts_check(shifts[i])

(***************************************************************************)
(* Steps of a request, as seen from a pair of states                       *)
(***************************************************************************)
\* request p takes the step that leaves program point pc
Steps(p, pc) == req[p].pc = pc /\ req'[p] # req[p]

\* no request other than p is in flight
Alone(p) == \A q \in Requests \ {p} : Free(q)

(***************************************************************************)
(* C1: in every reachable state each dispenser has at most one shift with  *)
(* status ACTIVE (so of several concurrent openShift calls on one          *)
(* dispenser only one can have inserted its shift).                        *)
(***************************************************************************)
C1_OneActiveShiftPerDispenser ==
  \A d \in DispenserIds : Cardinality(ActiveShiftsOf(d)) <= 1

(***************************************************************************)
(* C2: when openShift runs with no other request in flight on a dispenser  *)
(* that has an ACTIVE shift, it fails with the duplicate-active-shift      *)
(* error, creates no shift, writes no audit entry and leaves the existing  *)
(* shifts unchanged.                                                       *)
(***************************************************************************)
C2_DuplicateOpenRejected ==
  [][\A p \in Requests :
       (/\ Steps(p, "start_check")
        /\ Alone(p)
        /\ ActiveShiftsOf(req[p].args.dispenserId) # {})
       => /\ req'[p] = IdleReq
          /\ response'.op = "startShift"
          /\ response'.message = "There is already an active shift for this dispenser"
          /\ shifts' = shifts
          /\ audit_logs' = audit_logs]_vars

(***************************************************************************)
(* C3: the only status changes of a shift are ACTIVE -> COMPLETED and      *)
(* ACTIVE -> FLAGGED, made by the update of endShift, and FLAGGED ->       *)
(* COMPLETED, made by the update of resolveDiscrepancy: a shift never      *)
(* returns to ACTIVE and a COMPLETED shift never changes status again.     *)
(***************************************************************************)
C3_StatusTransitions ==
  [][\A i \in 1..Len(shifts) :
       shifts'[i].status # shifts[i].status =>
         \/ /\ shifts[i].status = "ACTIVE"
            /\ shifts'[i].status \in {"COMPLETED", "FLAGGED"}
            /\ \E p \in Requests : Steps(p, "end_update") /\ req[p].args.shiftId = i
         \/ /\ shifts[i].status = "FLAGGED"
            /\ shifts'[i].status = "COMPLETED"
            /\ \E p \in Requests : Steps(p, "resolve_update") /\ req[p].args.shiftId = i]_vars

(***************************************************************************)
(* C4: in every reachable state, every shift whose closing_reading is      *)
(* present has closing_reading >= opening_reading.                         *)
(***************************************************************************)
C4_ClosingNotBelowOpening ==
  \A i \in 1..Len(shifts) :
    ~IsNull(shifts[i].closing_reading) =>
       Val(shifts[i].closing_reading) >= Val(shifts[i].opening_reading)

\* a shift has been closed with a closing reading equal to its opening reading
C4_Witness ==
  \E i \in 1..Len(shifts) :
    /\ ~IsNull(shifts[i].closing_reading)
    /\ Val(shifts[i].closing_reading) = Val(shifts[i].opening_reading)

(***************************************************************************)
(* C5: endShift on an ACTIVE shift with a closing reading lower than the   *)
(* opening reading fails with the closing-below-opening error, and the     *)
(* request ends there: no shift row and no audit entry is written, so the  *)
(* shift stays ACTIVE with its closing reading, end time, cash fields and  *)
(* discrepancy unchanged.                                                  *)
(***************************************************************************)
C5_LowerClosingRejected ==
  [][\A p \in Requests :
       (/\ Steps(p, "end_fetch")
        /\ req[p].args.shiftId <= Len(shifts)
        /\ shifts[req[p].args.shiftId].status = "ACTIVE"
        /\ req[p].args.endData.closingReading
             < Val(shifts[req[p].args.shiftId].opening_reading))
       => /\ req'[p] = IdleReq
          /\ response' = [op |-> "endShift", shiftId |-> Some(req[p].args.shiftId),
                          message |-> "Closing reading cannot be less than opening reading"]
          /\ shifts' = shifts
          /\ audit_logs' = audit_logs]_vars

\* the last response is that failure and the shift it named is still ACTIVE
\* with no closing reading, end time or discrepancy
C5_Witness ==
  /\ response.message = "Closing reading cannot be less than opening reading"
  /\ LET s == shifts[Val(response.shiftId)]
     IN /\ s.status = "ACTIVE"
        /\ IsNull(s.closing_reading)
        /\ IsNull(s.end_time)
        /\ IsNull(s.discrepancy)

(***************************************************************************)
(* C6: the update of endShift stores fuel_sold = closing_reading -         *)
(* opening_reading and expected_cash = fuel_sold times the unit price the  *)
(* handler used, to the two decimals the columns keep; no other step       *)
(* changes either value.                                                   *)
(***************************************************************************)
C6_FuelAndExpectedCashDerived ==
  [][\A i \in 1..Len(shifts) :
       LET closers == {p \in Requests : Steps(p, "end_update") /\ req[p].args.shiftId = i}
           new == shifts'[i]
       IN IF closers = {}
          THEN /\ new.fuel_sold = shifts[i].fuel_sold
               /\ new.expected_cash = shifts[i].expected_cash
          ELSE \A p \in closers :
                 /\ new.fuel_sold =
                      Some(Val(new.closing_reading) - Val(new.opening_reading))
                 /\ new.expected_cash =
                      Some(Numeric2OfProduct(Val(new.fuel_sold)
                             * Val(req[p].cur).dispensers.current_price))]_vars

(***************************************************************************)
(* C7: the expected_cash stored by endShift is computed with the           *)
(* dispenser price that was current when the shift was opened (the price   *)
(* the CREATE audit entry of the shift recorded), also when the price was  *)
(* changed between the opening and the closing of the shift.               *)
(***************************************************************************)
C7_PriceAtOpen ==
  [][\A p \in Requests :
       Steps(p, "end_update") =>
         LET i == req[p].args.shiftId
             e == req[p].args.endData
         IN \A k \in 1..Len(audit_logs) :
              (/\ audit_logs[k].action = "CREATE"
               /\ audit_logs[k].entity_type = "shifts"
               /\ audit_logs[k].entity_id = i)
              => shifts'[i].expected_cash =
                   Some(Numeric2OfProduct(
                          (e.closingReading - Val(shifts[i].opening_reading))
                            * Val(audit_logs[k].new_values).dispensers.current_price))]_vars

(***************************************************************************)
(* C8: for every update of endShift, with total_received = actualCash +    *)
(* the digital sub-totals and net_expected = expected_cash - cashUsed,     *)
(* the status written is FLAGGED exactly when |total_received -            *)
(* net_expected| is strictly greater than the tolerance of 1, and          *)
(* COMPLETED otherwise (also when the difference equals the tolerance).    *)
(***************************************************************************)
C8_FlaggedIffOverTolerance ==
  [][\A p \in Requests :
       Steps(p, "end_update") =>
         LET e == req[p].args.endData
             cur == Val(req[p].cur)
             total_received == e.actualCash + OrZero(e.digitalPayments.upi)
                                 + OrZero(e.digitalPayments.card)
                                 + OrZero(e.digitalPayments.other)
             expected_cash == (e.closingReading - Val(cur.opening_reading))
                                 * cur.dispensers.current_price
             net_expected == expected_cash - e.cashUsed * ONE
             difference == Abs(total_received * ONE - net_expected)
         IN shifts'[req[p].args.shiftId].status =
              IF difference > Tolerance * ONE * ONE THEN "FLAGGED" ELSE "COMPLETED"]_vars

\* a shift was closed with a difference exactly equal to the tolerance and
\* is COMPLETED
C8_Witness ==
  \E i \in 1..Len(shifts) :
    /\ shifts[i].status = "COMPLETED"
    /\ IsNull(shifts[i].discrepancy)
    /\ ~IsNull(shifts[i].expected_cash)
    /\ Abs(shifts[i].actual_cash + OrZero(shifts[i].digital_payments.upi)
             + OrZero(shifts[i].digital_payments.card)
             + OrZero(shifts[i].digital_payments.other)
             - (Val(shifts[i].expected_cash) - shifts[i].cash_used)) = Tolerance * ONE

(***************************************************************************)
(* C9: when the update of endShift flags a shift, the discrepancy record   *)
(* it stores has the signed amount total_received - (expected_cash -       *)
(* cashUsed), is labelled as excess when the amount is positive and as     *)
(* shortage when it is negative, and has resolved = false; when it         *)
(* completes the shift, the shift has no discrepancy record.               *)
(***************************************************************************)
C9_DiscrepancyRecord ==
  [][\A p \in Requests :
       Steps(p, "end_update") =>
         LET e == req[p].args.endData
             cur == Val(req[p].cur)
             amount == (e.actualCash + OrZero(e.digitalPayments.upi)
                          + OrZero(e.digitalPayments.card)
                          + OrZero(e.digitalPayments.other)) * ONE
                       - ((e.closingReading - Val(cur.opening_reading))
                             * cur.dispensers.current_price
                          - e.cashUsed * ONE)
             new == shifts'[req[p].args.shiftId]
         IN IF new.status = "FLAGGED"
            THEN /\ ~IsNull(new.discrepancy)
                 /\ Val(new.discrepancy).amount = amount
                 /\ amount > 0 => Val(new.discrepancy).reason = "Excess cash"
                 /\ amount < 0 => Val(new.discrepancy).reason = "Cash shortage"
                 /\ Val(new.discrepancy).resolved = FALSE
            ELSE /\ new.status = "COMPLETED"
                 /\ IsNull(new.discrepancy)]_vars

\* a shift is FLAGGED with an unresolved excess
C9_Witness ==
  \E i \in 1..Len(shifts) :
    /\ shifts[i].status = "FLAGGED"
    /\ ~IsNull(shifts[i].discrepancy)
    /\ Val(shifts[i].discrepancy).amount > 0
    /\ Val(shifts[i].discrepancy).reason = "Excess cash"
    /\ Val(shifts[i].discrepancy).resolved = FALSE

(***************************************************************************)
(* C10: a resolve request gets past the route and the status check only    *)
(* when the caller's role is OWNER or MANAGER and the shift it fetched is  *)
(* FLAGGED; with any other role, or with a shift that is missing, ACTIVE   *)
(* or COMPLETED, the request ends with a failure and changes neither the   *)
(* shifts nor the audit log.                                               *)
(***************************************************************************)
ResolveFails(p) ==
  /\ req'[p] = IdleReq
  /\ response'.op = "resolveDiscrepancy"
  /\ response'.message # "Shift discrepancy resolved successfully"
  /\ shifts' = shifts
  /\ audit_logs' = audit_logs

C10_ResolveGating ==
  [][\A p \in Requests :
       /\ (Steps(p, "resolve_route") /\ Val(req[p].user).role \notin {"OWNER", "MANAGER"})
            => ResolveFails(p)
       /\ (Steps(p, "resolve_fetch")
             /\ \/ req[p].args.shiftId > Len(shifts)
                \/ shifts[req[p].args.shiftId].status # "FLAGGED")
            => ResolveFails(p)
       /\ (Steps(p, "resolve_fetch") /\ req'[p].pc = "resolve_update")
            => /\ Val(req[p].user).role \in {"OWNER", "MANAGER"}
               /\ shifts[req[p].args.shiftId].status = "FLAGGED"
       /\ (req[p].op = "resolveDiscrepancy" /\ req'[p] # req[p]
             /\ (shifts' # shifts \/ audit_logs' # audit_logs))
            => req[p].pc \in {"resolve_update", "resolve_audit"}]_vars

\* an OPERATOR's resolve of a FLAGGED shift was refused and the shift is
\* still FLAGGED and unresolved
C10_Witness ==
  /\ response.op = "resolveDiscrepancy"
  /\ response.message = "Insufficient permissions"
  /\ Val(response.shiftId) <= Len(shifts)
  /\ shifts[Val(response.shiftId)].status = "FLAGGED"
  /\ Val(shifts[Val(response.shiftId)].discrepancy).resolved = FALSE

(***************************************************************************)
(* C11: once a shift is closed (COMPLETED or FLAGGED), no step of a later  *)
(* openShift or resolve changes its opening reading, closing reading,      *)
(* fuel_sold, expected_cash, actual cash, digital payments or cash used,   *)
(* nor the amount and the excess/shortage label of its discrepancy         *)
(* record.  (The write of a second closeShift that raced with the first is *)
(* the subject of C14 and is left out here.)                               *)
(***************************************************************************)
C11_ClosedFieldsImmutable ==
  [][\A i \in 1..Len(shifts) :
       (/\ shifts[i].status # "ACTIVE"
        /\ ~ \E p \in Requests : Steps(p, "end_update") /\ req[p].args.shiftId = i)
       => /\ shifts'[i].opening_reading = shifts[i].opening_reading
          /\ shifts'[i].closing_reading = shifts[i].closing_reading
          /\ shifts'[i].fuel_sold = shifts[i].fuel_sold
          /\ shifts'[i].expected_cash = shifts[i].expected_cash
          /\ shifts'[i].actual_cash = shifts[i].actual_cash
          /\ shifts'[i].digital_payments = shifts[i].digital_payments
          /\ shifts'[i].cash_used = shifts[i].cash_used
          /\ ~IsNull(shifts[i].discrepancy) =>
               /\ ~IsNull(shifts'[i].discrepancy)
               /\ Val(shifts'[i].discrepancy).amount = Val(shifts[i].discrepancy).amount
               /\ Val(shifts[i].discrepancy).reason \in {"Excess cash", "Cash shortage"}
                    => Val(shifts'[i].discrepancy).reason = Val(shifts[i].discrepancy).reason]_vars

(***************************************************************************)
(* C12: the update of resolveDiscrepancy leaves the shift with status      *)
(* COMPLETED and a discrepancy record with resolved = true, the reason     *)
(* supplied in the request, the id of the acting user as resolver and a    *)
(* resolution timestamp; that row is what the request returns, with the    *)
(* success message.                                                        *)
(***************************************************************************)
C12_ResolveEffect ==
  [][\A p \in Requests :
       /\ Steps(p, "resolve_update") =>
            LET new == shifts'[req[p].args.shiftId]
            IN /\ new.status = "COMPLETED"
               /\ ~IsNull(new.discrepancy)
               /\ Val(new.discrepancy).resolved = TRUE
               /\ Val(new.discrepancy).reason = req[p].args.reason
               /\ Val(new.discrepancy).resolved_by = Val(req[p].user).id
               /\ Val(new.discrepancy).resolved_at = "ts"
               /\ req'[p].out = Some(new)
               /\ req'[p].pc = "resolve_audit"
       /\ Steps(p, "resolve_audit") =>
            response' = [op |-> "resolveDiscrepancy",
                         shiftId |-> Some(req[p].args.shiftId),
                         message |-> "Shift discrepancy resolved successfully"]]_vars

\* a resolve has returned success and its shift is COMPLETED with a
\* discrepancy resolved by a manager or owner for the reason they gave
C12_Witness ==
  /\ response.op = "resolveDiscrepancy"
  /\ response.message = "Shift discrepancy resolved successfully"
  /\ LET s == shifts[Val(response.shiftId)]
     IN /\ s.status = "COMPLETED"
        /\ ~IsNull(s.discrepancy)
        /\ Val(s.discrepancy).resolved = TRUE
        /\ Val(s.discrepancy).reason = "verified register count"
        /\ Val(s.discrepancy).resolved_by \in {"mgr1", "own1"}

(***************************************************************************)
(* C13: in sequential histories, endShift on a shift that does not exist   *)
(* or is not ACTIVE fails ('Shift not found' / 'Only active shifts can be  *)
(* ended') and writes neither the shifts nor the audit log; the update of  *)
(* endShift is applied only to an ACTIVE shift and leaves it not ACTIVE,   *)
(* and a shift that is not ACTIVE never becomes ACTIVE again, so each      *)
(* shift is closed successfully at most once.                              *)
(***************************************************************************)
C13_CloseOnlyActive ==
  [][/\ \A p \in Requests :
          /\ (Steps(p, "end_fetch")
                /\ \/ req[p].args.shiftId > Len(shifts)
                   \/ shifts[req[p].args.shiftId].status # "ACTIVE")
               => /\ req'[p] = IdleReq
                  /\ response'.op = "endShift"
                  /\ response'.message = IF req[p].args.shiftId > Len(shifts)
                                         THEN "Shift not found"
                                         ELSE "Only active shifts can be ended"
                  /\ shifts' = shifts
                  /\ audit_logs' = audit_logs
          /\ Steps(p, "end_update")
               => /\ shifts[req[p].args.shiftId].status = "ACTIVE"
                  /\ shifts'[req[p].args.shiftId].status # "ACTIVE"
     /\ \A i \in 1..Len(shifts) :
          shifts[i].status # "ACTIVE" => shifts'[i].status # "ACTIVE"]_vars

\* a second endShift on a shift that was already closed has been refused
C13_Witness ==
  /\ response.op = "endShift"
  /\ response.message = "Only active shifts can be ended"
  /\ Val(response.shiftId) <= Len(shifts)
  /\ shifts[Val(response.shiftId)].status \in {"COMPLETED", "FLAGGED"}
  /\ ~IsNull(shifts[Val(response.shiftId)].closing_reading)

(***************************************************************************)
(* C14: when the update of an endShift request comes after another         *)
(* endShift has already closed the same shift, the request fails with      *)
(* 'Only active shifts can be ended' and leaves the shift as the first     *)
(* close wrote it.                                                         *)
(***************************************************************************)
C14_ConcurrentCloseOneWinner ==
  [][\A p \in Requests :
       (Steps(p, "end_update") /\ shifts[req[p].args.shiftId].status # "ACTIVE")
       => /\ shifts' = shifts
          /\ req'[p] = IdleReq
          /\ response'.op = "endShift"
          /\ response'.message = "Only active shifts can be ended"]_vars

(***************************************************************************)
(* C15: when the update of a resolve request comes after another resolve   *)
(* has already resolved the same shift, the request fails with 'Only       *)
(* flagged shifts can be resolved' and leaves the resolution reason,       *)
(* resolver and resolution time as the first resolve wrote them.           *)
(***************************************************************************)
C15_ConcurrentResolveOneWinner ==
  [][\A p \in Requests :
       (Steps(p, "resolve_update") /\ shifts[req[p].args.shiftId].status # "FLAGGED")
       => /\ shifts' = shifts
          /\ req'[p] = IdleReq
          /\ response'.op = "resolveDiscrepancy"
          /\ response'.message = "Only flagged shifts can be resolved"]_vars

(***************************************************************************)
(* The audit entry a request at its audit step hands to logAuditEvent      *)
(***************************************************************************)
AuditStepPcs == {"start_audit", "end_audit", "resolve_audit"}

AtAuditStep(p) == req[p].pc \in AuditStepPcs /\ req'[p] # req[p]

AuditEntryOf(p) ==
  IF req[p].pc = "start_audit"
  THEN [user_id |-> Val(req[p].user).id, action |-> "CREATE",
        entity_type |-> "shifts", entity_id |-> Val(req[p].out).id,
        old_values |-> Null, new_values |-> req[p].out]
  ELSE [user_id |-> Val(req[p].user).id, action |-> "UPDATE",
        entity_type |-> "shifts", entity_id |-> req[p].args.shiftId,
        old_values |-> req[p].cur, new_values |-> req[p].out]

\* the snapshots a request carries are the shift as it read it and as it
\* wrote it; every write of a shift takes the request to its audit step;
\* entries about shifts are appended by audit steps only
SnapshotsAndAuditSteps ==
  /\ \A p \in Requests :
       /\ Steps(p, "start_insert") =>
            /\ Len(shifts') = Len(shifts) + 1
            /\ req'[p].out = Some(WithDispenser(shifts'[Len(shifts')]))
            /\ req'[p].pc = "start_audit"
       /\ (Steps(p, "end_fetch") /\ req'[p].pc = "end_update") =>
            req'[p].cur = Some(WithDispenser(shifts[req[p].args.shiftId]))
       /\ Steps(p, "end_update") =>
            /\ req'[p].cur = req[p].cur
            /\ req'[p].out = Some(WithDispenser(shifts'[req[p].args.shiftId]))
            /\ req'[p].pc = "end_audit"
       /\ (Steps(p, "resolve_fetch") /\ req'[p].pc = "resolve_update") =>
            req'[p].cur = Some(shifts[req[p].args.shiftId])
       /\ Steps(p, "resolve_update") =>
            /\ req'[p].cur = req[p].cur
            /\ req'[p].out = Some(shifts'[req[p].args.shiftId])
            /\ req'[p].pc = "resolve_audit"
  /\ shifts' # shifts =>
       \E p \in Requests :
         \/ Steps(p, "start_insert")
         \/ Steps(p, "end_update")
         \/ Steps(p, "resolve_update")
  /\ (/\ audit_logs' # audit_logs
      /\ \E k \in 1..Len(audit_logs') :
           k > Len(audit_logs) /\ audit_logs'[k].entity_type = "shifts")
     => \E p \in Requests : AtAuditStep(p)

C17_AuditAppendOnly ==
  [][/\ Len(audit_logs') >= Len(audit_logs)
     /\ SubSeq(audit_logs', 1, Len(audit_logs)) = audit_logs]_vars

\* the log has grown after it already held an entry
C17_Witness == Len(audit_logs) >= 2

C19_UsageReasonRequired ==
  [][/\ \A p \in Requests :
          (/\ req[p].op = "endShift"
           /\ req'[p] # req[p]
           /\ req[p].args.endData.cashUsed > 0
           /\ \/ IsNull(req[p].args.endData.cashUsageReason)
              \/ Val(req[p].args.endData.cashUsageReason) = "")
          => /\ shifts' = shifts
             /\ response'.message # "Shift ended successfully"
     /\ \A i \in 1..Len(shifts') :
          (shifts'[i].status # "ACTIVE" /\ shifts'[i].cash_used > 0)
          => /\ ~IsNull(shifts'[i].cash_usage_reason)
             /\ Val(shifts'[i].cash_usage_reason) # ""]_vars

(***************************************************************************)
(* C20: a resolve request with an empty reason fails (with 'Validation     *)
(* failed' when the caller's role is admitted) and writes neither the      *)
(* shifts nor the audit log, so the shift stays FLAGGED and unresolved;    *)
(* every discrepancy record that is resolved has a non-empty reason.       *)
(***************************************************************************)
C20_ResolveReasonRequired ==
  [][/\ \A p \in Requests :
          (/\ req[p].op = "resolveDiscrepancy"
           /\ req'[p] # req[p]
           /\ req[p].args.reason = "")
          => /\ req'[p] = IdleReq
             /\ response'.op = "resolveDiscrepancy"
             /\ response'.message =
                  IF Val(req[p].user).role \in {"OWNER", "MANAGER"}
                  THEN "Validation failed" ELSE "Insufficient permissions"
             /\ shifts' = shifts
             /\ audit_logs' = audit_logs
     /\ \A i \in 1..Len(shifts') :
          (~IsNull(shifts'[i].discrepancy) /\ Val(shifts'[i].discrepancy).resolved)
          => Val(shifts'[i].discrepancy).reason # ""]_vars

\* a resolve without reason was refused by the validation and the shift it
\* named is still FLAGGED with its discrepancy unresolved
C20_Witness ==
  /\ response.op = "resolveDiscrepancy"
  /\ response.message = "Validation failed"
  /\ Val(response.shiftId) <= Len(shifts)
  /\ shifts[Val(response.shiftId)].status = "FLAGGED"
  /\ Val(shifts[Val(response.shiftId)].discrepancy).resolved = FALSE

(***************************************************************************)
(* C21: the insert of startShift creates a shift whose opening reading is  *)
(* not lower than the closing reading of any shift already closed on the   *)
(* same dispenser (a lower opening reading must have been refused before   *)
(* the insert).                                                            *)
(***************************************************************************)
C21_OpeningNotBelowLastClosing ==
  [][\A p \in Requests :
       Steps(p, "start_insert") =>
         \A i \in 1..Len(shifts) :
           (/\ shifts[i].dispenser_id = req[p].args.dispenserId
            /\ ~IsNull(shifts[i].closing_reading))
           => Val(shifts'[Len(shifts')].opening_reading)
                >= Val(shifts[i].closing_reading)]_vars

(***************************************************************************)
(* C23: in every reachable state a shift is ACTIVE exactly when it has     *)
(* neither an end time nor a closing reading; an ACTIVE shift has its      *)
(* opening reading, a closed shift has end time and closing reading both.  *)
(***************************************************************************)
C23_ActiveIffOpenEnded ==
  \A i \in 1..Len(shifts) :
    /\ shifts[i].status = "ACTIVE"
         <=> (IsNull(shifts[i].end_time) /\ IsNull(shifts[i].closing_reading))
    /\ shifts[i].status # "ACTIVE"
         <=> (~IsNull(shifts[i].end_time) /\ ~IsNull(shifts[i].closing_reading))
    /\ ~IsNull(shifts[i].opening_reading)

\* one shift has been closed and another one is open
C23_Witness ==
  \E i, j \in 1..Len(shifts) :
    /\ shifts[i].status \in {"COMPLETED", "FLAGGED"}
    /\ ~IsNull(shifts[i].end_time)
    /\ ~IsNull(shifts[i].closing_reading)
    /\ shifts[j].status = "ACTIVE"
    /\ shifts[j].opening_reading = Some(1000)
    /\ IsNull(shifts[j].end_time)
    /\ IsNull(shifts[j].closing_reading)

(***************************************************************************)
(* C27: in every reachable state a FLAGGED shift has a discrepancy record  *)
(* with resolved = false and an amount whose absolute value exceeds the    *)
(* tolerance, a COMPLETED shift has no discrepancy record or a resolved    *)
(* one, and an ACTIVE shift has none.                                      *)
(***************************************************************************)
C27_StatusAgreesWithDiscrepancy ==
  \A i \in 1..Len(shifts) :
    LET s == shifts[i]
    IN /\ s.status = "FLAGGED" =>
            /\ ~IsNull(s.discrepancy)
            /\ Val(s.discrepancy).resolved = FALSE
            /\ \/ Val(s.discrepancy).amount > Tolerance * ONE * ONE
               \/ Val(s.discrepancy).amount < 0 - Tolerance * ONE * ONE
       /\ s.status = "COMPLETED" =>
            \/ IsNull(s.discrepancy)
            \/ Val(s.discrepancy).resolved = TRUE
       /\ s.status = "ACTIVE" => IsNull(s.discrepancy)

\* a shift that was flagged has been resolved and is COMPLETED with a
\* resolved record
C27_Witness ==
  \E i \in 1..Len(shifts) :
    /\ shifts[i].status = "COMPLETED"
    /\ ~IsNull(shifts[i].discrepancy)
    /\ Val(shifts[i].discrepancy).resolved = TRUE
    /\ Val(shifts[i].discrepancy).amount > Tolerance * ONE * ONE

(***************************************************************************)
(* DELETE /dispensers/:id -> DispenserService.deleteDispenser              *)
(***************************************************************************)
\* the dispenser ids of the requests: the seeded dispenser and an id that no
\* row has
DispenserTargets == DispenserIds \cup {"d0"}

DeleteDispenser(p, u, d) ==
  /\ Admit(p)
  /\ req' = [req EXCEPT ![p] = NewReq("deleteDispenser", "delete_route", u,
                                 [dispenserId |-> d])]
  /\ UNCHANGED <<store, response>>

\* the route: authorizeRoles('OWNER', 'MANAGER')
deleteDispenser_route(p) ==
  /\ req[p].pc = "delete_route"
  /\ IF ~authorizeRoles({"OWNER", "MANAGER"}, Val(req[p].user))
     THEN Return(p, Null, "Insufficient permissions")
     ELSE Continue([req EXCEPT ![p].pc = "delete_check"])
  /\ UNCHANGED <<store, calls>>

deleteDispenser_check_unchecked(p) ==
  /\ req[p].pc = "delete_check"
  /\ Continue([req EXCEPT ![p].pc = "delete_fetch"])
  /\ UNCHANGED <<store, calls>>

\* select id from shifts where dispenser_id = .. and status = 'ACTIVE'
deleteDispenser_check(p) ==
  /\ req[p].pc = "delete_check"
  /\ IF ActiveShiftsOf(req[p].args.dispenserId) # {}
     THEN Return(p, Null, "Cannot delete dispenser with active shifts")
     ELSE Continue([req EXCEPT ![p].pc = "delete_fetch"])
  /\ UNCHANGED <<store, calls>>

\* select * from dispensers where id = .. .single()
deleteDispenser_fetch(p) ==
  /\ req[p].pc = "delete_fetch"
  /\ LET d == req[p].args.dispenserId
     IN IF d \notin DOMAIN dispensers
        THEN Return(p, Null, "Dispenser not found")
        ELSE Continue([req EXCEPT ![p].pc = "delete_update",
                                  ![p].cur = Some(dispensers[d])])
  /\ UNCHANGED <<store, calls>>

\* update dispensers set is_active = false where id = ..
deleteDispenser_update(p) ==
  /\ req[p].pc = "delete_update"
  /\ LET d == req[p].args.dispenserId
     IN /\ dispensers' = [dispensers EXCEPT ![d].is_active = FALSE]
        /\ req' = [req EXCEPT ![p].pc = "delete_audit",
                               ![p].out = Some(dispensers'[d])]
  /\ UNCHANGED <<daily_rates, shifts, audit_logs, calls, response>>

deleteDispenser_audit(p) ==
  /\ req[p].pc = "delete_audit"
  /\ AuditInsert(logAuditEvent(Val(req[p].user).id, "DELETE", "dispensers",
                             req[p].args.dispenserId, req[p].cur, req[p].out))
  /\ Return(p, Null, "Dispenser deleted successfully")
  /\ UNCHANGED <<dispensers, daily_rates, shifts, calls>>

deleteDispenser(p) ==
  \/ deleteDispenser_route(p)
  \/ deleteDispenser_check(p)
  \/ deleteDispenser_fetch(p)
  \/ deleteDispenser_update(p)
  \/ deleteDispenser_audit(p)

(***************************************************************************)
(* The server given open-shift and delete-dispenser requests               *)
(***************************************************************************)
NextDispensers ==
  \/ \E p \in Requests, u \in Operators, d \in DispenserTargets,
        r \in OpeningReadings :
        PostShift(p, u, d, r) /\ UNCHANGED <<charging, auth, validation>>
  \/ \E p \in Requests, u \in Users, d \in DispenserTargets :
        DeleteDispenser(p, u, d) /\ UNCHANGED <<charging, auth, validation>>
  \/ \E p \in Requests : startShift(p) /\ UNCHANGED <<charging, auth, validation>>
  \/ \E p \in Requests :
        deleteDispenser(p) /\ UNCHANGED <<charging, auth, validation>>

SpecDispensers == Init /\ [][NextDispensers]_vars

\* one request at a time
SeqNextDispensers ==
  NextDispensers /\ Cardinality({p \in Requests : req'[p].pc # "idle"}) <= 1

SeqSpecDispensers == Init /\ [][SeqNextDispensers]_vars

C28_NoActiveShiftOnInactiveDispenser ==
  \A s \in ShiftRows :
    s.status = "ACTIVE" =>
      /\ s.dispenser_id \in DOMAIN dispensers
      /\ dispensers[s.dispenser_id].is_active

(***************************************************************************)
(* GET /shifts/:id -> ShiftService.getShiftById, and requests of users of  *)
(* another station                                                         *)
(***************************************************************************)
\* signed-in users whose petrolPumpId is not the pump of dispenser d1
OtherStationUsers == {
  [id |-> "opB",  role |-> "OPERATOR", petrolPumpId |-> "pumpB"],
  [id |-> "mgrB", role |-> "MANAGER",  petrolPumpId |-> "pumpB"] }

GetShift(p, u, id) ==
  /\ Admit(p)
  /\ req' = [req EXCEPT ![p] = NewReq("getShift", "get_fetch", u,
                                 [shiftId |-> id])]
  /\ UNCHANGED <<store, response>>

\* getShiftById, then the route's comparison of req.user.petrolPumpId with
\* the pump of the shift's dispenser
getShiftById(p) ==
  /\ req[p].pc = "get_fetch"
  /\ LET shift == single(ShiftById(req[p].args.shiftId))
     IN IF IsNull(shift)
        THEN Return(p, Some(req[p].args.shiftId), "Shift not found")
        ELSE IF Val(req[p].user).petrolPumpId
                  # dispensers[Val(shift).dispenser_id].petrol_pump_id
             THEN Return(p, Some(req[p].args.shiftId), "Access denied to this shift")
             ELSE Return(p, Some(req[p].args.shiftId), "Shift returned")
  /\ UNCHANGED <<store, calls>>

\* the shifts router given requests of both stations' users, on the database
\* that holds the FLAGGED shift 1 of pumpA
NextStations ==
  \/ \E p \in Requests, u \in Operators, d \in DispenserIds, r \in OpeningReadings :
        PostShift(p, u, d, r) /\ UNCHANGED <<charging, auth, validation>>
  \/ \E p \in Requests, u \in OtherStationUsers, id \in ShiftIds, e \in EndInputs :
        /\ u.role = "OPERATOR"
        /\ PutEnd(p, u, id, e)
        /\ UNCHANGED <<charging, auth, validation>>
  \/ \E p \in Requests, u \in OtherStationUsers, id \in ShiftIds :
        /\ u.role = "MANAGER"
        /\ PutResolve(p, u, id, "verified register count")
        /\ UNCHANGED <<charging, auth, validation>>
  \/ \E p \in Requests, u \in Operators \cup OtherStationUsers, id \in ShiftIds :
        GetShift(p, u, id) /\ UNCHANGED <<charging, auth, validation>>
  \/ \E p \in Requests : startShift(p) /\ UNCHANGED <<charging, auth, validation>>
  \/ \E p \in Requests : endShift(p) /\ UNCHANGED <<charging, auth, validation>>
  \/ \E p \in Requests :
        resolveDiscrepancy(p) /\ UNCHANGED <<charging, auth, validation>>
  \/ \E p \in Requests : getShiftById(p) /\ UNCHANGED <<charging, auth, validation>>

SpecStations == InitFlagged /\ [][NextStations]_vars

\* request p is about an existing shift whose dispenser belongs to another
\* station than p's user
OfOtherStation(p) ==
  /\ req[p].op \in {"getShift", "endShift", "resolveDiscrepancy"}
  /\ \E s \in ShiftById(req[p].args.shiftId) :
       dispensers[s.dispenser_id].petrol_pump_id # Val(req[p].user).petrolPumpId

(***************************************************************************)
(* C29: a request to read, end or resolve a shift whose dispenser belongs  *)
(* to another station than the user's changes no shift and is refused: the *)
(* read with 'Access denied to this shift', the end and the resolve        *)
(* without their success message.                                          *)
(***************************************************************************)
C29_OwnStationOnly ==
  [][\A p \in Requests :
       (OfOtherStation(p) /\ req'[p] # req[p]) =>
         /\ shifts' = shifts
         /\ Steps(p, "get_fetch")
              => response'.message = "Access denied to this shift"
         /\ req'[p].pc = "idle"
              => response'.message \notin
                   {"Shift returned", "Shift ended successfully",
                    "Shift discrepancy resolved successfully"}]_vars

(***************************************************************************)
(* ValidationUtils: the number validators.  A JavaScript number is NaN,    *)
(* Infinity, -Infinity or a decimal sign * n / 10^k written with the       *)
(* fewest digits (k = 0, or the last digit of n is not 0).                 *)
(***************************************************************************)
NaN == [kind |-> "NaN"]
Infinity == [kind |-> "Infinity"]
NegInfinity == [kind |-> "-Infinity"]
undefined == [kind |-> "undefined"]
Num(sign, n, k) == [kind |-> "num", sign |-> sign, n |-> n, k |-> k]

RECURSIVE Pow10(_)
Pow10(k) == IF k = 0 THEN 1 ELSE 10 * Pow10(k - 1)

\* Number.isFinite
isFinite(x) == x.kind = "num"

\* |x| < |y| for two decimals (zero has sign 1): the integer parts, then the
\* fractions brought to the same number of digits
MagnitudeLess(x, y) ==
  LET K == IF x.k > y.k THEN x.k ELSE y.k
      xi == x.n \div Pow10(x.k)
      yi == y.n \div Pow10(y.k)
      xf == (x.n % Pow10(x.k)) * Pow10(K - x.k)
      yf == (y.n % Pow10(y.k)) * Pow10(K - y.k)
  IN xi < yi \/ (xi = yi /\ xf < yf)

\* x < y on numbers: false as soon as one side is NaN
LessThan(x, y) ==
  IF x.kind = "NaN" \/ y.kind = "NaN" THEN FALSE
  ELSE IF x.kind = "Infinity" \/ y.kind = "-Infinity" THEN FALSE
  ELSE IF x.kind = "-Infinity" \/ y.kind = "Infinity" THEN TRUE
  ELSE IF x.sign < 0 /\ y.sign > 0 THEN TRUE
  ELSE IF x.sign > 0 /\ y.sign < 0 THEN FALSE
  ELSE IF x.sign > 0 THEN MagnitudeLess(x, y)
  ELSE MagnitudeLess(y, x)

\* x > y
GreaterThan(x, y) == LessThan(y, x)

\* x >= y
GreaterOrEqual(x, y) ==
  IF x.kind = "NaN" \/ y.kind = "NaN" THEN FALSE ELSE ~LessThan(x, y)

\* x === 0
IsZero(x) == x.kind = "num" /\ x.n = 0

\* the number of digits after the decimal point in the number's decimal
\* expansion
FractionalDigits(x) == x.k

DigitChars == <<"0", "1", "2", "3", "4", "5", "6", "7", "8", "9">>

RECURSIVE Digits(_)
Digits(n) ==
  IF n < 10 THEN <<DigitChars[n + 1]>>
  ELSE Digits(n \div 10) \o <<DigitChars[(n % 10) + 1]>>

RECURSIVE Zeros(_)
Zeros(j) == IF j = 0 THEN <<>> ELSE <<"0">> \o Zeros(j - 1)

\* Number.prototype.toString() of a finite number below 10^21, as a sequence
\* of characters: decimal notation down to 10^-6, exponent notation below
toString(x) ==
  IF x.n = 0 THEN <<"0">>
  ELSE LET d == Digits(x.n)
           e == Len(d) - x.k      \* the value is 0.d1d2.. * 10^e
           body ==
             IF x.k = 0 THEN d
             ELSE IF e > 0
               THEN SubSeq(d, 1, e) \o <<".">> \o SubSeq(d, e + 1, Len(d))
             ELSE IF e > -6
               THEN <<"0", ".">> \o Zeros(0 - e) \o d
             ELSE (IF Len(d) = 1 THEN d
                   ELSE <<d[1], ".">> \o SubSeq(d, 2, Len(d)))
                  \o <<"e", "-">> \o Digits(1 - e)
       IN (IF x.sign < 0 THEN <<"-">> ELSE <<>>) \o body

\* String.prototype.includes for one character
includes(str, c) == \E i \in 1..Len(str) : str[i] = c

\* str.split(c)[1]: what stands between the first c and the next one
SplitSecond(str, c) ==
  LET first == CHOOSE i \in 1..Len(str) :
                 str[i] = c /\ \A j \in 1..(i - 1) : str[j] # c
      rest == SubSeq(str, first + 1, Len(str))
  IN IF includes(rest, c)
     THEN SubSeq(rest, 1, (CHOOSE i \in 1..Len(rest) :
                             rest[i] = c /\ \A j \in 1..(i - 1) : rest[j] # c) - 1)
     ELSE rest

ValidationResult(errors) == [isValid |-> Len(errors) = 0, errors |-> errors]

validateStockReading_strictOrder(reading, previousReading, readingType) ==
  LET basic ==
        IF ~isFinite(reading) THEN <<"Stock reading must be a valid number">>
        ELSE IF LessThan(reading, Num(1, 0, 0))
          THEN <<"Stock reading cannot be negative">>
        ELSE IF GreaterThan(reading, Num(1, 999999, 0))
          THEN <<"Stock reading seems unusually high (max: 999,999)">>
        ELSE <<>>
      sequential ==
        IF previousReading # undefined /\ ~GreaterThan(reading, previousReading)
        THEN <<readingType
                 \o " reading must be greater than or equal to previous reading">>
        ELSE <<>>
  IN ValidationResult(basic \o sequential)

validateStockReading(reading, previousReading, readingType) ==
  LET basic ==
        IF ~isFinite(reading) THEN <<"Stock reading must be a valid number">>
        ELSE IF LessThan(reading, Num(1, 0, 0))
          THEN <<"Stock reading cannot be negative">>
        ELSE IF GreaterThan(reading, Num(1, 999999, 0))
          THEN <<"Stock reading seems unusually high (max: 999,999)">>
        ELSE <<>>
      sequential ==
        IF previousReading # undefined /\ LessThan(reading, previousReading)
        THEN <<readingType
                 \o " reading must be greater than or equal to previous reading">>
        ELSE <<>>
  IN ValidationResult(basic \o sequential)

validateCashAmount(amount, fieldName, allowZero) ==
  LET basic ==
        IF ~isFinite(amount) THEN <<fieldName \o " must be a valid number">>
        ELSE IF LessThan(amount, Num(1, 0, 0))
          THEN <<fieldName \o " cannot be negative">>
        ELSE IF ~allowZero /\ IsZero(amount)
          THEN <<fieldName \o " must be greater than zero">>
        ELSE IF GreaterThan(amount, Num(1, 1000000, 0))
          THEN <<fieldName \o " seems unusually high">>
        ELSE <<>>
      decimals ==
        IF isFinite(amount) /\ includes(toString(amount), ".")
        THEN LET decimalPlaces == Len(SplitSecond(toString(amount), "."))
             IN IF decimalPlaces > 2
                THEN <<fieldName \o " should have at most 2 decimal places">>
                ELSE <<>>
        ELSE <<>>
  IN ValidationResult(basic \o decimals)

\* the numbers given to the validators
NumberInputs ==
  { NaN, Infinity, NegInfinity,
    Num(1, 0, 0), Num(1, 1, 0), Num(1, 100, 0), Num(-1, 1, 0), Num(-1, 5, 1),
    Num(1, 15, 1), Num(1, 125, 2), Num(1, 1255, 3),
    Num(1, 1, 6), Num(1, 1, 7), Num(1, 15, 8),
    Num(1, 999999, 0), Num(1, 9999995, 1),
    Num(1, 1000000, 0), Num(1, 100000001, 2), Num(1, 1000001, 0) }

ReadingTypes == {"opening", "closing"}

\* the calls of the validators: the arguments, and no result yet
ValidatorCalls ==
  [fn : {"validateStockReading"}, reading : NumberInputs,
   previousReading : NumberInputs \cup {undefined},
   readingType : ReadingTypes, result : {Null}]
  \cup
  [fn : {"validateCashAmount"}, amount : NumberInputs, fieldName : {"amount"},
   allowZero : BOOLEAN, result : {Null}]

InitValidators ==
  /\ dispensers = [d \in DispenserIds |->
        [current_price |-> 2000, is_active |-> TRUE,
         petrol_pump_id |-> "pumpA", fuel_type |-> "PETROL"]]
  /\ daily_rates = {}
  /\ shifts = <<>>
  /\ audit_logs = <<>>
  /\ req = [p \in Requests |-> IdleReq]
  /\ calls = 0
  /\ response = [op |-> "none", shiftId |-> Null, message |-> "none"]
  /\ InitCharging
  /\ InitAuth
  /\ validation \in ValidatorCalls

\* the call of validateStockReading returns
ValidateStockReading ==
  /\ validation # Null
  /\ validation.fn = "validateStockReading"
  /\ IsNull(validation.result)
  /\ validation' = [validation EXCEPT !.result =
         Some(validateStockReading(validation.reading, validation.previousReading,
                                   validation.readingType))]
  /\ UNCHANGED <<store, req, calls, response, charging, auth>>

\* the call of validateCashAmount returns
ValidateCashAmount ==
  /\ validation # Null
  /\ validation.fn = "validateCashAmount"
  /\ IsNull(validation.result)
  /\ validation' = [validation EXCEPT !.result =
         Some(validateCashAmount(validation.amount, validation.fieldName,
                                 validation.allowZero))]
  /\ UNCHANGED <<store, req, calls, response, charging, auth>>

NextValidators ==
  \/ ValidateStockReading
  \/ ValidateCashAmount

SpecValidators == InitValidators /\ [][NextValidators]_vars

\* validation holds a returned call of fn
Returned(fn) ==
  /\ validation # Null
  /\ validation.fn = fn
  /\ ~IsNull(validation.result)

C25_CashAmountAcceptedIff ==
  Returned("validateCashAmount") =>
    LET a == validation.amount
        result == Val(validation.result)
    IN /\ result.isValid <=>
            /\ isFinite(a)
            /\ GreaterOrEqual(a, Num(1, 0, 0))
            /\ ~GreaterThan(a, Num(1, 1000000, 0))
            /\ ~validation.allowZero => ~IsZero(a)
            /\ FractionalDigits(a) <= 2
       /\ ~result.isValid <=> Len(result.errors) > 0

(***************************************************************************)
(* AuthenticationService (client): authenticate, logout, isAuthenticated,  *)
(* revokeUserAccess, restoreUserAccess.  A call runs without interruption  *)
(* up to its next await; the calls in progress are kept in req.            *)
(***************************************************************************)
\* user ids; a user's username resolves to the user of the same name
AuthUsers == {"op1", "mgr1"}

maxLoginAttempts == 3

\* loginAttempts.get(key)?.count, 0 without an entry
AttemptCount(key) ==
  IF key \in DOMAIN loginAttempts THEN loginAttempts[key] ELSE 0

\* the catch block of authenticate: count the failed attempt
TrackFailedAttempt(key) ==
  loginAttempts' = [k \in DOMAIN loginAttempts \cup {key} |->
                      IF k = key THEN AttemptCount(key) + 1 ELSE loginAttempts[k]]

\* loginAttempts.delete(key)
ClearAttempts(key) ==
  loginAttempts' = [k \in DOMAIN loginAttempts \ {key} |-> loginAttempts[k]]

\* authenticate up to its first await: lockout check, credential validation.
\* locked: the last failed attempt is less than 15 minutes old; valid: the
\* username and password pass ValidationUtils
Authenticate(p, username, valid, locked) ==
  /\ Admit(p)
  /\ IF AttemptCount(username) >= maxLoginAttempts /\ locked
     THEN /\ response' = [op |-> "authenticate", shiftId |-> Null,
                          message |-> "Account temporarily locked. Please try again later."]
          /\ UNCHANGED <<req, auth>>
     ELSE IF ~valid
     THEN /\ TrackFailedAttempt(username)
          /\ response' = [op |-> "authenticate", shiftId |-> Null,
                          message |-> "Please enter a valid username"]
          /\ UNCHANGED <<req, currentUser, currentToken, revokedUsers, activeSessions>>
     ELSE /\ IF AttemptCount(username) >= maxLoginAttempts
             THEN ClearAttempts(username)
             ELSE UNCHANGED loginAttempts
          /\ req' = [req EXCEPT ![p] =
                [op |-> "authenticate", pc |-> "auth_login", user |-> Null,
                 args |-> [username |-> username, token |-> calls + 1],
                 cur |-> Null, out |-> Null]]
          /\ UNCHANGED <<response, currentUser, currentToken, revokedUsers,
                         activeSessions>>

\* apiService.login has answered: on success the revocation and is_active
\* checks, then currentUser and currentToken are set and storeUserData is
\* awaited
authenticate_login(p) ==
  /\ req[p].pc = "auth_login"
  /\ \E success \in BOOLEAN, isActive \in BOOLEAN :
       LET id == req[p].args.username
           failed(message) ==
             /\ TrackFailedAttempt(req[p].args.username)
             /\ Return(p, Null, message)
             /\ UNCHANGED <<currentUser, currentToken, revokedUsers, activeSessions>>
       IN IF ~success THEN failed("Login failed")
          ELSE IF id \in revokedUsers
            THEN failed("Your access has been revoked. Please contact your administrator.")
          ELSE IF ~isActive
            THEN failed("Your account is currently inactive. Please contact your administrator.")
          ELSE /\ currentUser' = Some(id)
               /\ currentToken' = Some(req[p].args.token)
               /\ Continue([req EXCEPT ![p].pc = "auth_store",
                                       ![p].user = Some(id)])
               /\ UNCHANGED <<revokedUsers, activeSessions, loginAttempts>>
  /\ UNCHANGED calls

\* storeUserData is done: the session is tracked, the attempts are cleared,
\* the call returns success
authenticate_store(p) ==
  /\ req[p].pc = "auth_store"
  /\ activeSessions' =
       {x \in activeSessions : x.token # req[p].args.token}
         \cup {[token |-> req[p].args.token, userId |-> Val(req[p].user)]}
  /\ ClearAttempts(req[p].args.username)
  /\ Return(p, Null, "Authenticated")
  /\ UNCHANGED <<currentUser, currentToken, revokedUsers, calls>>

authenticate(p) ==
  \/ authenticate_login(p)
  \/ authenticate_store(p)

\* logout up to its first await
Logout(p) ==
  /\ Admit(p)
  /\ req' = [req EXCEPT ![p] =
        [op |-> "logout",
         pc |-> IF IsNull(currentToken) THEN "logout_clear" ELSE "logout_api",
         user |-> Null, args |-> NoArgs, cur |-> Null, out |-> Null]]
  /\ UNCHANGED <<response, auth>>

\* apiService.logout is done (its failure is caught): the session of the
\* token that is current now is removed, clearStoredUserData is awaited
logout_api(p) ==
  /\ req[p].pc = "logout_api"
  /\ activeSessions' =
       IF IsNull(currentToken) THEN activeSessions
       ELSE {x \in activeSessions : x.token # Val(currentToken)}
  /\ Continue([req EXCEPT ![p].pc = "logout_clear"])
  /\ UNCHANGED <<currentUser, currentToken, revokedUsers, loginAttempts, calls>>

\* clearStoredUserData is done: currentUser and currentToken are reset
logout_clear(p) ==
  /\ req[p].pc = "logout_clear"
  /\ currentUser' = Null
  /\ currentToken' = Null
  /\ Return(p, Null, "Logged out")
  /\ UNCHANGED <<revokedUsers, activeSessions, loginAttempts, calls>>

logout(p) ==
  \/ logout_api(p)
  \/ logout_clear(p)

\* the value isAuthenticated() returns
isAuthenticated ==
  /\ ~IsNull(currentUser)
  /\ ~IsNull(currentToken)
  /\ Val(currentUser) \notin revokedUsers
  /\ \E x \in activeSessions : x.token = Val(currentToken)

\* isAuthenticated(): returns at once; when it finds the current user revoked
\* or the current token without a session it starts logout() without
\* awaiting it
IsAuthenticatedCall(p) ==
  /\ Admit(p)
  /\ response' = [op |-> "isAuthenticated", shiftId |-> Null,
                  message |-> IF isAuthenticated THEN "true" ELSE "false"]
  /\ IF ~IsNull(currentUser) /\ ~IsNull(currentToken) /\ ~isAuthenticated
     THEN req' = [req EXCEPT ![p] =
            [op |-> "logout", pc |-> "logout_api", user |-> Null,
             args |-> NoArgs, cur |-> Null, out |-> Null]]
     ELSE UNCHANGED req
  /\ UNCHANGED auth

\* revokeUserAccess(userId): synchronous
revokeUserAccess(userId) ==
  /\ calls < MaxCalls
  /\ calls' = calls + 1
  /\ revokedUsers' = revokedUsers \cup {userId}
  /\ activeSessions' = {x \in activeSessions : x.userId # userId}
  /\ IF ~IsNull(currentUser) /\ Val(currentUser) = userId
     THEN currentUser' = Null /\ currentToken' = Null
     ELSE UNCHANGED <<currentUser, currentToken>>
  /\ response' = [op |-> "revokeUserAccess", shiftId |-> Null, message |-> userId]
  /\ UNCHANGED <<req, loginAttempts>>

\* restoreUserAccess(userId): synchronous
restoreUserAccess(userId) ==
  /\ calls < MaxCalls
  /\ calls' = calls + 1
  /\ revokedUsers' = revokedUsers \ {userId}
  /\ response' = [op |-> "restoreUserAccess", shiftId |-> Null, message |-> userId]
  /\ UNCHANGED <<req, currentUser, currentToken, activeSessions, loginAttempts>>

NextAuth ==
  \/ \E p \in Requests, username \in AuthUsers, valid \in BOOLEAN, locked \in BOOLEAN :
        /\ Authenticate(p, username, valid, locked)
        /\ UNCHANGED <<store, charging, validation>>
  \/ \E p \in Requests : authenticate(p) /\ UNCHANGED <<store, charging, validation>>
  \/ \E p \in Requests : Logout(p) /\ UNCHANGED <<store, charging, validation>>
  \/ \E p \in Requests : logout(p) /\ UNCHANGED <<store, charging, validation>>
  \/ \E p \in Requests :
        IsAuthenticatedCall(p) /\ UNCHANGED <<store, charging, validation>>
  \/ \E userId \in AuthUsers :
        revokeUserAccess(userId) /\ UNCHANGED <<store, charging, validation>>
  \/ \E userId \in AuthUsers :
        restoreUserAccess(userId) /\ UNCHANGED <<store, charging, validation>>

SpecAuth == Init /\ [][NextAuth]_vars

SessionIds == {1, 2}
EnergyInputs == {10000}
PointStatusInputs == {"AVAILABLE", "MAINTENANCE"}

ActiveSessionsOf(c) ==
  {i \in 1..Len(charging_sessions) :
     /\ charging_sessions[i].charging_point_id = c
     /\ charging_sessions[i].session_status = "ACTIVE"}

\* POST /charging/sessions (no ratePerKwh in the body)
PostSession(p, u, c) ==
  /\ Admit(p)
  /\ req' = [req EXCEPT ![p] = NewReq("startChargingSession", "session_point", u,
                                 [chargingPointId |-> c])]
  /\ UNCHANGED <<store, charging, response>>

\* select * from charging_points where id = .. and status = 'AVAILABLE' .single()
startChargingSession_point(p) ==
  /\ req[p].pc = "session_point"
  /\ LET c == req[p].args.chargingPointId
     IN IF c \notin DOMAIN charging_points \/ charging_points[c].status # "AVAILABLE"
        THEN Return(p, Null, "Charging point not available")
        ELSE Continue([req EXCEPT ![p].pc = "session_insert",
                                  ![p].cur = Some(charging_points[c])])
  /\ UNCHANGED <<store, charging, calls>>

\* insert into charging_sessions ... session_status 'ACTIVE'
startChargingSession_insert(p) ==
  /\ req[p].pc = "session_insert"
  /\ LET newSession ==
           [id |-> Len(charging_sessions) + 1,
            charging_point_id |-> req[p].args.chargingPointId,
            operator_id |-> Val(req[p].user).id,
            start_time |-> Some("ts"), end_time |-> Null,
            energy_dispensed |-> Null,
            rate_per_kwh |-> Val(req[p].cur).current_rate,
            total_amount |-> Null, session_status |-> "ACTIVE"]
     IN /\ charging_sessions' = Append(charging_sessions, newSession)
        /\ req' = [req EXCEPT ![p].pc = "session_occupy",
                               ![p].out = Some(newSession)]
  /\ UNCHANGED <<store, charging_points, calls, response>>

\* update charging_points set status = 'OCCUPIED' where id = ..
startChargingSession_occupy(p) ==
  /\ req[p].pc = "session_occupy"
  /\ charging_points' =
       [charging_points EXCEPT ![req[p].args.chargingPointId].status = "OCCUPIED"]
  /\ Continue([req EXCEPT ![p].pc = "session_audit"])
  /\ UNCHANGED <<store, charging_sessions, calls>>

startChargingSession_audit(p) ==
  /\ req[p].pc = "session_audit"
  /\ AuditInsert(logAuditEvent(Val(req[p].user).id, "CREATE", "charging_sessions",
                             Val(req[p].out).id, Null, req[p].out))
  /\ Return(p, Null, "Charging session started successfully")
  /\ UNCHANGED <<dispensers, daily_rates, shifts, charging, calls>>

startChargingSession(p) ==
  \/ startChargingSession_point(p)
  \/ startChargingSession_insert(p)
  \/ startChargingSession_occupy(p)
  \/ startChargingSession_audit(p)

\* PUT /charging/sessions/:id/end
PutSessionEnd(p, u, id, energyDispensed) ==
  /\ Admit(p)
  /\ req' = [req EXCEPT ![p] = NewReq("endChargingSession", "sessionend_fetch", u,
                                 [sessionId |-> id,
                                  energyDispensed |-> energyDispensed])]
  /\ UNCHANGED <<store, charging, response>>

\* select the session with its charging point's total_energy_dispensed
endChargingSession_fetch(p) ==
  /\ req[p].pc = "sessionend_fetch"
  /\ LET id == req[p].args.sessionId
     IN IF id \notin 1..Len(charging_sessions)
        THEN Return(p, Null, "Charging session not found")
        ELSE IF charging_sessions[id].session_status # "ACTIVE"
        THEN Return(p, Null, "Only active sessions can be ended")
        ELSE Continue([req EXCEPT ![p].pc = "sessionend_update",
               ![p].cur = Some(
                  [charging_points |->
                     [total_energy_dispensed |->
                        charging_points[charging_sessions[id].charging_point_id]
                          .total_energy_dispensed]]
                  @@ charging_sessions[id])])
  /\ UNCHANGED <<store, charging, calls>>

\* update charging_sessions set ... session_status = 'COMPLETED' where id = ..
endChargingSession_update(p) ==
  /\ req[p].pc = "sessionend_update"
  /\ LET id == req[p].args.sessionId
         totalAmount == req[p].args.energyDispensed * Val(req[p].cur).rate_per_kwh
         updatedSession ==
           [charging_sessions[id] EXCEPT
              !.end_time = Some("ts"),
              !.energy_dispensed = Some(req[p].args.energyDispensed),
              !.total_amount = Some(Numeric2OfProduct(totalAmount)),
              !.session_status = "COMPLETED"]
     IN /\ charging_sessions' = [charging_sessions EXCEPT ![id] = updatedSession]
        /\ req' = [req EXCEPT ![p].pc = "sessionend_release",
                               ![p].out = Some(updatedSession)]
  /\ UNCHANGED <<store, charging_points, calls, response>>

\* update charging_points set status = 'AVAILABLE', total_energy_dispensed = ..
endChargingSession_release(p) ==
  /\ req[p].pc = "sessionend_release"
  /\ charging_points' =
       [charging_points EXCEPT ![Val(req[p].cur).charging_point_id] =
          [@ EXCEPT !.status = "AVAILABLE",
                    !.total_energy_dispensed =
                       Val(req[p].cur).charging_points.total_energy_dispensed
                         + req[p].args.energyDispensed]]
  /\ Continue([req EXCEPT ![p].pc = "sessionend_audit"])
  /\ UNCHANGED <<store, charging_sessions, calls>>

endChargingSession_audit(p) ==
  /\ req[p].pc = "sessionend_audit"
  /\ AuditInsert(logAuditEvent(Val(req[p].user).id, "UPDATE", "charging_sessions",
                             req[p].args.sessionId, req[p].cur, req[p].out))
  /\ Return(p, Null, "Charging session ended successfully")
  /\ UNCHANGED <<dispensers, daily_rates, shifts, charging, calls>>

endChargingSession(p) ==
  \/ endChargingSession_fetch(p)
  \/ endChargingSession_update(p)
  \/ endChargingSession_release(p)
  \/ endChargingSession_audit(p)

\* PUT /charging/points/:id/status, authorizeRoles('OWNER', 'MANAGER', 'OPERATOR')
PutPointStatus(p, u, c, status) ==
  /\ Admit(p)
  /\ authorizeRoles({"OWNER", "MANAGER", "OPERATOR"}, u)
  /\ req' = [req EXCEPT ![p] = NewReq("updateChargingPointStatus", "status_fetch", u,
                                 [chargingPointId |-> c, status |-> status])]
  /\ UNCHANGED <<store, charging, response>>

\* select * from charging_points where id = .. .single()
updateChargingPointStatus_fetch(p) ==
  /\ req[p].pc = "status_fetch"
  /\ LET c == req[p].args.chargingPointId
     IN IF c \notin DOMAIN charging_points
        THEN Return(p, Null, "Charging point not found")
        ELSE Continue([req EXCEPT ![p].pc = "status_update",
                                  ![p].cur = Some([status |-> charging_points[c].status])])
  /\ UNCHANGED <<store, charging, calls>>

\* update charging_points set status = .. where id = ..
updateChargingPointStatus_update(p) ==
  /\ req[p].pc = "status_update"
  /\ charging_points' =
       [charging_points EXCEPT ![req[p].args.chargingPointId].status =
                                  req[p].args.status]
  /\ Continue([req EXCEPT ![p].pc = "status_audit",
                          ![p].out = Some([status |-> req[p].args.status])])
  /\ UNCHANGED <<store, charging_sessions, calls>>

updateChargingPointStatus_audit(p) ==
  /\ req[p].pc = "status_audit"
  /\ AuditInsert(logAuditEvent(Val(req[p].user).id, "UPDATE", "charging_points",
                             req[p].args.chargingPointId, req[p].cur, req[p].out))
  /\ Return(p, Null, "Charging point status updated successfully")
  /\ UNCHANGED <<dispensers, daily_rates, shifts, charging, calls>>

updateChargingPointStatus(p) ==
  \/ updateChargingPointStatus_fetch(p)
  \/ updateChargingPointStatus_update(p)
  \/ updateChargingPointStatus_audit(p)

NextCharging ==
  \/ \E p \in Requests, u \in Operators, c \in ChargingPointIds :
        PostSession(p, u, c) /\ UNCHANGED <<auth, validation>>
  \/ \E p \in Requests, u \in Operators, id \in SessionIds, e \in EnergyInputs :
        PutSessionEnd(p, u, id, e) /\ UNCHANGED <<auth, validation>>
  \/ \E p \in Requests, u \in Operators, c \in ChargingPointIds,
        status \in PointStatusInputs :
        PutPointStatus(p, u, c, status) /\ UNCHANGED <<auth, validation>>
  \/ \E p \in Requests : startChargingSession(p) /\ UNCHANGED <<auth, validation>>
  \/ \E p \in Requests : endChargingSession(p) /\ UNCHANGED <<auth, validation>>
  \/ \E p \in Requests :
        updateChargingPointStatus(p) /\ UNCHANGED <<auth, validation>>

SpecCharging == Init /\ [][NextCharging]_vars

(***************************************************************************)
(* C30: under any interleaving of startChargingSession, endChargingSession *)
(* and updateChargingPointStatus, a charging point has at most one session *)
(* with session_status ACTIVE, and a charging point with an ACTIVE session *)
(* has status OCCUPIED.                                                    *)
(***************************************************************************)
C30_OneActiveSessionOnOccupiedPoint ==
  \A c \in DOMAIN charging_points :
    /\ Cardinality(ActiveSessionsOf(c)) <= 1
    /\ ActiveSessionsOf(c) # {} => charging_points[c].status = "OCCUPIED"
====
